---- MODULE Spec2Model ----
(***************************************************************************)
(* Model of src/src/server.js (API DNCommerce): the sale registration      *)
(* handler app.post('/vendas') running against the Sequelize store.        *)
(*                                                                         *)
(* The store is the shared state: the Produto rows, the Venda rows and the *)
(* ItemVenda join rows.  Every `await` of the handler is one atomic step   *)
(* against the store; between two awaits of one request any other request  *)
(* may take steps (Node's event loop interleaves handlers at awaits).      *)
(*                                                                         *)
(* Prices are FLOAT columns; the model uses whole numbers for them (the    *)
(* handler only multiplies a price by a quantity and adds the products).   *)
(***************************************************************************)
EXTENDS Integers, Sequences, FiniteSets, TLC

\* ---------------------------------------------------------------- bounds
NumProd == 2          \* Produto rows present in the store
NumReq == 2           \* POST /vendas requests the server receives
MaxItens == 2         \* longest `itens` array of a request body
MaxQuantidade == 2    \* largest `quantidade` of an item
MaxNegativa == 1      \* most negative `quantidade` of an item is -MaxNegativa
NumClientes == 1      \* ClienteId values a body may carry

\* Initial contents of the Produto table (price, stock) of product p.
PrecoInicial(p) == 10 * p
EstoqueInicial(p) == IF p = 1 THEN 2 ELSE 1

Produtos == 1..NumProd
\* ProdutoId values a request may name; NumProd + 1 names no row.
ProdutoIds == 1..(NumProd + 1)
Clientes == 1..NumClientes
Reqs == 1..NumReq

Quantidades == (0 - MaxNegativa)..MaxQuantidade
QuantidadesPos == 1..MaxQuantidade

SeqsAte(S, n) == UNION {[1..k -> S] : k \in 0..n}

\* Request bodies { ClienteId, itens: [{ProdutoId, quantidade}] }.
Itens(Qs) == [ProdutoId : ProdutoIds, quantidade : Qs]
Corpos(Qs) == [ClienteId : Clientes, itens : SeqsAte(Itens(Qs), MaxItens)]

VARIABLES
    produtos,   \* Produto table: id -> [preco, estoque]
    vendas,     \* Venda table: sequence of rows, the id is the position
    itemVenda,  \* ItemVenda table: <<VendaId, ProdutoId>> -> [quantidade, preco_unitario]
    req,        \* per request: the handler's locals and its position
    clientes,   \* Cliente table: id -> [nome, email, cpf]
    lista       \* body of the last GET /vendas response (<<>> before the first)

vars == <<produtos, vendas, itemVenda, req, clientes, lista>>

\* `produto` before Produto.findByPk has returned a row.
SemProduto == [id |-> 0, preco |-> 0, estoque |-> 0]

ReqInicial ==
    [pc |-> "idle", body |-> [ClienteId |-> 0, itens |-> <<>>], i |-> 1,
     venda |-> 0, produto |-> SemProduto, totalVenda |-> 0, status |-> 0,
     estoqueAntes |-> [p \in Produtos |-> 0]]

Init ==
    /\ produtos = [p \in Produtos |-> [preco |-> PrecoInicial(p), estoque |-> EstoqueInicial(p)]]
    /\ vendas = <<>>
    /\ itemVenda = <<>>
    /\ req = [r \in Reqs |-> ReqInicial]
    /\ clientes = [c \in Clientes |-> [nome |-> c, email |-> c, cpf |-> c]]
    /\ lista = <<>>

\* ------------------------------------------------------------- handler
\* Position of the `for (const item of itens)` loop once item i is due.
LoopPc(itens, i) == IF i > Len(itens) THEN "total" ELSE "find"

\* The request arrives and the body is destructured (line 106); requests
\* are numbered in their order of arrival.
\* estoqueAntes records the stock at that moment (history, for the claims).
Receive(r, body) ==
    /\ req[r].pc = "idle"
    /\ \A q \in Reqs : q < r => req[q].pc # "idle"
    /\ req' = [req EXCEPT ![r] = [@ EXCEPT !.pc = "create", !.body = body,
                  !.estoqueAntes = [p \in Produtos |-> produtos[p].estoque]]]
    /\ UNCHANGED <<produtos, vendas, itemVenda, clientes, lista>>

\* Variant of Venda.create that stores the expected total of the body
\* (one unit price per requested item) in place of the default 0.
VendaCreateComTotal(r) ==
    /\ req[r].pc = "create"
    /\ vendas' = Append(vendas, [ClienteId |-> req[r].body.ClienteId,
                                 total |-> 10 * Len(req[r].body.itens)])
    /\ req' = [req EXCEPT ![r] = [@ EXCEPT !.venda = Len(vendas) + 1,
                  !.totalVenda = 0, !.pc = LoopPc(req[r].body.itens, 1)]]
    /\ UNCHANGED <<produtos, itemVenda, clientes, lista>>

\* const venda = await Venda.create({ ClienteId }); let totalVenda = 0;
VendaCreate(r) ==
    /\ req[r].pc = "create"
    /\ vendas' = Append(vendas, [ClienteId |-> req[r].body.ClienteId, total |-> 0])
    /\ req' = [req EXCEPT ![r] = [@ EXCEPT !.venda = Len(vendas) + 1,
                  !.totalVenda = 0, !.pc = LoopPc(req[r].body.itens, 1)]]
    /\ UNCHANGED <<produtos, itemVenda, clientes, lista>>

\* Variants of the stock check with the comparison reversed, and with
\* "less or equal" in place of "less".
EstoqueInsuficienteInvertido(estoque, quantidade) == estoque > quantidade

EstoqueInsuficienteOuIgual(estoque, quantidade) == estoque <= quantidade

\* if (produto.estoque < item.quantidade)
EstoqueInsuficiente(estoque, quantidade) == estoque < quantidade

\* Variant of findByPk that takes the stock from the rows as they were
\* when the request arrived (products loaded once, before the loop).
FindProdutoDoInicio(r) ==
    /\ req[r].pc = "find"
    /\ LET item == req[r].body.itens[req[r].i]
           id == item.ProdutoId
       IN IF id \notin DOMAIN produtos
          THEN req' = [req EXCEPT ![r] = [@ EXCEPT !.pc = "done", !.status = 404]]
          ELSE IF EstoqueInsuficiente(req[r].estoqueAntes[id], item.quantidade)
          THEN req' = [req EXCEPT ![r] = [@ EXCEPT !.pc = "done", !.status = 400]]
          ELSE req' = [req EXCEPT ![r] = [@ EXCEPT !.pc = "add",
                          !.produto = [id |-> id, preco |-> produtos[id].preco,
                                       estoque |-> req[r].estoqueAntes[id]]]]
    /\ UNCHANGED <<produtos, vendas, itemVenda, clientes, lista>>

\* Variant of the stock check without its `return`: the 400 is answered
\* and the loop goes on with the item.
FindProdutoSemReturn(r) ==
    /\ req[r].pc = "find"
    /\ LET item == req[r].body.itens[req[r].i]
           id == item.ProdutoId
       IN IF id \notin DOMAIN produtos
          THEN req' = [req EXCEPT ![r] = [@ EXCEPT !.pc = "done", !.status = 404]]
          ELSE req' = [req EXCEPT ![r] = [@ EXCEPT !.pc = "add",
                          !.status = IF EstoqueInsuficiente(produtos[id].estoque,
                                                            item.quantidade)
                                     THEN 400 ELSE @,
                          !.produto = [id |-> id, preco |-> produtos[id].preco,
                                       estoque |-> produtos[id].estoque]]]
    /\ UNCHANGED <<produtos, vendas, itemVenda, clientes, lista>>

\* const produto = await Produto.findByPk(item.ProdutoId); the two checks
\* that follow run in the same turn of the event loop.
FindProduto(r) ==
    /\ req[r].pc = "find"
    /\ LET item == req[r].body.itens[req[r].i]
           id == item.ProdutoId
       IN IF id \notin DOMAIN produtos
          THEN req' = [req EXCEPT ![r] = [@ EXCEPT !.pc = "done", !.status = 404]]
          ELSE IF EstoqueInsuficiente(produtos[id].estoque, item.quantidade)
          THEN req' = [req EXCEPT ![r] = [@ EXCEPT !.pc = "done", !.status = 400]]
          ELSE req' = [req EXCEPT ![r] = [@ EXCEPT !.pc = "add",
                          !.produto = [id |-> id, preco |-> produtos[id].preco,
                                       estoque |-> produtos[id].estoque]]]
    /\ UNCHANGED <<produtos, vendas, itemVenda, clientes, lista>>

\* The ItemVenda table after venda.addProduto(produto, { through: row }).
\* The through table of belongsToMany is keyed by (VendaId, ProdutoId):
\* add() inserts the row when the pair is new and overwrites the through
\* attributes of the existing row otherwise.
ThroughAdd(tabela, vendaId, produtoId, row) ==
    LET key == <<vendaId, produtoId>>
    IN [k \in (DOMAIN tabela) \cup {key} |-> IF k = key THEN row ELSE tabela[k]]

\* await venda.addProduto(produto, { through: { quantidade, preco_unitario } });
AddProduto(r) ==
    /\ req[r].pc = "add"
    /\ LET item == req[r].body.itens[req[r].i]
       IN itemVenda' = ThroughAdd(itemVenda, req[r].venda, req[r].produto.id,
                          [quantidade |-> item.quantidade,
                           preco_unitario |-> req[r].produto.preco])
    /\ req' = [req EXCEPT ![r] = [@ EXCEPT !.pc = "update"]]
    /\ UNCHANGED <<produtos, vendas, clientes, lista>>

\* Variant of the written value that takes one unit whatever the quantity.
NovoEstoqueUmaUnidade(produto, quantidade) == produto.estoque - 1

\* The value written by produto.update: computed from the row as it was
\* read by findByPk, not from the row as it is in the store now.
NovoEstoque(produto, quantidade) == produto.estoque - quantidade

\* Variant of produto.update whose UPDATE has no WHERE clause: the new
\* stock is written to every Produto row.
UpdateEstoqueSemWhere(r) ==
    /\ req[r].pc = "update"
    /\ LET item == req[r].body.itens[req[r].i]
           p == req[r].produto
           novo == NovoEstoque(p, item.quantidade)
       IN /\ produtos' = IF novo = p.estoque THEN produtos
                         ELSE [q \in DOMAIN produtos |->
                                  [produtos[q] EXCEPT !.estoque = novo]]
          /\ req' = [req EXCEPT ![r] = [@ EXCEPT
                        !.totalVenda = @ + p.preco * item.quantidade,
                        !.i = @ + 1,
                        !.produto = SemProduto,
                        !.pc = LoopPc(req[r].body.itens, req[r].i + 1)]]
    /\ UNCHANGED <<vendas, itemVenda, clientes, lista>>

\* await produto.update({ estoque: produto.estoque - item.quantidade });
\* totalVenda += produto.preco * item.quantidade;
\* Model.update saves only changed attributes: when the new value equals
\* the value of the instance, no UPDATE statement is issued.
UpdateEstoque(r) ==
    /\ req[r].pc = "update"
    /\ LET item == req[r].body.itens[req[r].i]
           p == req[r].produto
           novo == NovoEstoque(p, item.quantidade)
       IN /\ produtos' = IF novo = p.estoque THEN produtos
                         ELSE [produtos EXCEPT ![p.id].estoque = novo]
          /\ req' = [req EXCEPT ![r] = [@ EXCEPT
                        !.totalVenda = @ + p.preco * item.quantidade,
                        !.i = @ + 1,
                        !.produto = SemProduto,
                        !.pc = LoopPc(req[r].body.itens, req[r].i + 1)]]
    /\ UNCHANGED <<vendas, itemVenda, clientes, lista>>

\* await venda.update({ total: totalVenda });
VendaUpdate(r) ==
    /\ req[r].pc = "total"
    /\ vendas' = [vendas EXCEPT ![req[r].venda].total = req[r].totalVenda]
    /\ req' = [req EXCEPT ![r] = [@ EXCEPT !.pc = "fetch"]]
    /\ UNCHANGED <<produtos, itemVenda, clientes, lista>>

\* const vendaCompleta = await Venda.findByPk(...); res.status(201).json(...)
VendaFindByPk(r) ==
    /\ req[r].pc = "fetch"
    /\ req' = [req EXCEPT ![r] = [@ EXCEPT !.pc = "done", !.status = 201]]
    /\ UNCHANGED <<produtos, vendas, itemVenda, clientes, lista>>

\* Positions at which the handler is waiting for a store operation.
StorePcs == {"create", "find", "add", "update", "total", "fetch"}

\* The pending store operation rejects: catch (error) { res.status(500) }.
\* The rejected operation has written nothing.
StoreError(r) ==
    /\ req[r].pc \in StorePcs
    /\ req' = [req EXCEPT ![r] = [@ EXCEPT !.pc = "done", !.status = 500,
                  !.produto = SemProduto]]
    /\ UNCHANGED <<produtos, vendas, itemVenda, clientes, lista>>

Step(r) ==
    \/ VendaCreate(r)
    \/ FindProduto(r)
    \/ AddProduto(r)
    \/ UpdateEstoque(r)
    \/ VendaUpdate(r)
    \/ VendaFindByPk(r)

\* No handler is between its first and its last await.
NenhumaEmCurso == \A r \in Reqs : req[r].pc \in {"idle", "done"}

\* Concurrent handlers: requests whose quantities are positive integers (the
\* body format the handler documents), interleaved at their awaits; any
\* pending store operation may reject.
Next ==
    \/ \E r \in Reqs : \E body \in Corpos(QuantidadesPos) : Receive(r, body)
    \/ \E r \in Reqs : Step(r)
    \/ \E r \in Reqs : StoreError(r)

Spec == Init /\ [][Next]_vars

\* No concurrent call: a request is received only when no handler is
\* running.  Quantities are any integers of the range, zero and negative
\* ones included; the store operations succeed.
NextSeq ==
    \/ \E r \in Reqs : NenhumaEmCurso /\ \E body \in Corpos(Quantidades) : Receive(r, body)
    \/ \E r \in Reqs : Step(r)

SpecSeq == Init /\ [][NextSeq]_vars

\* ------------------------------------------------- helpers of the claims
\* Sum of the quantities of the items 1..k of `itens` that name product p.
RECURSIVE SomaQuantidade(_, _, _)
SomaQuantidade(itens, k, p) ==
    IF k = 0 THEN 0
    ELSE SomaQuantidade(itens, k - 1, p)
         + (IF itens[k].ProdutoId = p THEN itens[k].quantidade ELSE 0)

\* Quantity of product p that request r has taken from the stock so far:
\* the loop has completed produto.update for the items before item i.
Aplicado(r, p) == SomaQuantidade(req[r].body.itens, req[r].i - 1, p)

RECURSIVE SomaSobre(_, _)
SomaSobre(f, S) ==
    IF S = {} THEN 0
    ELSE LET x == CHOOSE y \in S : TRUE IN f[x] + SomaSobre(f, S \ {x})

\* Keys of the ItemVenda rows of sale v.
LinhasDaVenda(v) == {k \in DOMAIN itemVenda : k[1] = v}

\* Sum of quantidade * preco_unitario over the ItemVenda rows of sale v.
TotalDasLinhas(v) ==
    SomaSobre([k \in LinhasDaVenda(v) |->
                  itemVenda[k].quantidade * itemVenda[k].preco_unitario],
              LinhasDaVenda(v))

\* Sum of price * quantity over the requested items, at the stored prices.
TotalPedido(itens) ==
    SomaSobre([k \in DOMAIN itens |->
                  produtos[itens[k].ProdutoId].preco * itens[k].quantidade],
              DOMAIN itens)

Terminou(r) == req[r].pc = "done"

\* Request r has returned and no later request has been received: the
\* store is as r left it (requests are numbered in order of arrival).
AcabouDeTerminar(r) ==
    /\ Terminou(r)
    /\ \A q \in Reqs : q > r => req[q].pc = "idle"

FalhouNoItem(r) == Terminou(r) /\ req[r].status \in {400, 404}

\* ---------------------------------------------------------------- claims

\* C1 (Spec): with positive quantities and a store that starts with every
\* stock >= 0, every product's stock is >= 0 in every reachable state, the
\* states between the store operations of concurrent requests included.
C1_EstoqueNaoNegativo == \A p \in Produtos : produtos[p].estoque >= 0

\* Two requests have each taken product p, more was taken in sum than the
\* product had, and the stock stands at zero.
C1_Witness ==
    \E p \in Produtos :
        /\ produtos[p].estoque = 0
        /\ \A r \in Reqs : Aplicado(r, p) > 0
        /\ SomaSobre([r \in Reqs |-> Aplicado(r, p)], Reqs) > EstoqueInicial(p)

\* C2 (Spec): no lost update: each product's stock equals its initial stock
\* minus the sum of the quantities of all items whose decrement was applied.
C2_SemAtualizacaoPerdida ==
    \A p \in Produtos :
        produtos[p].estoque =
            EstoqueInicial(p) - SomaSobre([r \in Reqs |-> Aplicado(r, p)], Reqs)

QuantidadesPositivas(r) ==
    \A k \in DOMAIN req[r].body.itens : req[r].body.itens[k].quantidade > 0

\* C3 (SpecSeq): a call (with positive quantities) that fails at an item
\* after earlier items were processed leaves every stock as it was before
\* the call and leaves no ItemVenda row of the attempt.
C3_AtomicidadeFalhaParcial ==
    \A r \in Reqs :
        (AcabouDeTerminar(r) /\ FalhouNoItem(r) /\ req[r].i > 1
            /\ QuantidadesPositivas(r)) =>
            /\ \A p \in Produtos : produtos[p].estoque = req[r].estoqueAntes[p]
            /\ LinhasDaVenda(req[r].venda) = {}

\* C4 (SpecSeq): a call that ends in 404 or 400 leaves no Venda row of the
\* attempt in the store, and the stock of the failing product is unchanged.
C4_SemVendaAposFalha ==
    \A r \in Reqs :
        (AcabouDeTerminar(r) /\ FalhouNoItem(r)) =>
            /\ req[r].venda \notin DOMAIN vendas
            /\ LET id == req[r].body.itens[req[r].i].ProdutoId
               IN id \in Produtos => produtos[id].estoque = req[r].estoqueAntes[id]

\* C5 (Spec): for every call that ended in 201, the stored total of the
\* sale is the sum of quantidade * preco_unitario over its ItemVenda rows.
C5_TotalCorreto ==
    \A r \in Reqs :
        (Terminou(r) /\ req[r].status = 201) =>
            vendas[req[r].venda].total = TotalDasLinhas(req[r].venda)

\* The items name distinct existing products, with positive quantities that
\* the stock at the start of the call covers.
ItensDistintosEmEstoque(r) ==
    LET itens == req[r].body.itens
    IN /\ \A k \in DOMAIN itens :
            /\ itens[k].ProdutoId \in Produtos
            /\ itens[k].quantidade > 0
            /\ itens[k].quantidade <= req[r].estoqueAntes[itens[k].ProdutoId]
       /\ \A j, k \in DOMAIN itens : j # k => itens[j].ProdutoId # itens[k].ProdutoId

\* C6 (SpecSeq): a call with distinct existing products and positive
\* quantities within the stock, run with no concurrent call, is never
\* answered 400 or 404, and when it has returned it was answered 201, each
\* product's stock has gone down by exactly the requested quantity, there
\* is one ItemVenda row per item carrying the quantity and the product's
\* price, and the total of the sale is the sum of price * quantity.
C6_VendaIsolada ==
    \A r \in Reqs :
        (req[r].pc # "idle" /\ ItensDistintosEmEstoque(r)) =>
            /\ req[r].status \in {0, 201}
            /\ AcabouDeTerminar(r) =>
                LET itens == req[r].body.itens
                    v == req[r].venda
                IN /\ req[r].status = 201
                   /\ \A p \in Produtos :
                        produtos[p].estoque =
                            req[r].estoqueAntes[p] - SomaQuantidade(itens, Len(itens), p)
                   /\ LinhasDaVenda(v) = {<<v, itens[k].ProdutoId>> : k \in DOMAIN itens}
                   /\ Cardinality(LinhasDaVenda(v)) = Len(itens)
                   /\ \A k \in DOMAIN itens :
                        itemVenda[<<v, itens[k].ProdutoId>>] =
                            [quantidade |-> itens[k].quantidade,
                             preco_unitario |-> produtos[itens[k].ProdutoId].preco]
                   /\ vendas[v].total = TotalPedido(itens)

\* A two-item sale of distinct products, one of them with quantity 2, has
\* returned 201.
C6_Witness ==
    \E r \in Reqs :
        /\ AcabouDeTerminar(r)
        /\ ItensDistintosEmEstoque(r)
        /\ Len(req[r].body.itens) = 2
        /\ \E k \in DOMAIN req[r].body.itens : req[r].body.itens[k].quantidade = 2
        /\ req[r].status = 201

\* C7 (Spec): a call with n items that ended in 201 has added one Venda
\* row, has n ItemVenda rows stored for the sale, and has applied n stock
\* decrements.
C7_EfeitosDoSucesso ==
    \A r \in Reqs :
        (Terminou(r) /\ req[r].status = 201) =>
            /\ req[r].venda \in DOMAIN vendas
            /\ \A q \in Reqs : (q # r /\ req[q].venda # 0) => req[q].venda # req[r].venda
            /\ Cardinality(LinhasDaVenda(req[r].venda)) = Len(req[r].body.itens)
            /\ req[r].i - 1 = Len(req[r].body.itens)

\* The answer the item {id, quantidade} gets from the store as it is now:
\* 404, 400, or 0 when the item passes both checks.
RespostaDoItem(id, quantidade) ==
    IF id \notin DOMAIN produtos THEN 404
    ELSE IF produtos[id].estoque < quantidade THEN 400
    ELSE 0

\* C8 (Spec): the answer is decided item by item in the order of the body,
\* against the store as it is at the item's turn: 404 when the product does
\* not exist, 400 when its stock is below the quantity, otherwise the loop
\* goes on; 201 is answered only after every item has passed; a rejected
\* store operation gives 500.
C8_MapeamentoResposta ==
    [][\A r \in Reqs :
          /\ (req[r].pc = "find" /\ req'[r] # req[r]) =>
                LET item == req[r].body.itens[req[r].i]
                IN /\ req'[r].status \in
                        {500, RespostaDoItem(item.ProdutoId, item.quantidade)}
                   /\ req'[r].status = 0 => req'[r].pc = "add"
                   /\ req'[r].status # 0 => req'[r].pc = "done"
          /\ (req'[r].status # req[r].status /\ req'[r].status \in {400, 404}) =>
                req[r].pc = "find"
          /\ (req'[r].status # req[r].status /\ req'[r].status = 201) =>
                /\ req[r].pc = "fetch"
                /\ req[r].i = Len(req[r].body.itens) + 1
          /\ (req[r].pc = "done") => req'[r] = req[r]
      ]_vars

\* One request was answered 400 at its second item and another 404.
C8_Witness ==
    \E r, q \in Reqs :
        /\ Terminou(r) /\ req[r].status = 400 /\ req[r].i = 2
        /\ Terminou(q) /\ req[q].status = 404

\* C9 (SpecSeq): a request with an item of quantity <= 0 is answered with
\* a client error (400 or 404), never 201.
C9_QuantidadeValidada ==
    \A r \in Reqs :
        (Terminou(r) /\ \E k \in DOMAIN req[r].body.itens :
                            req[r].body.itens[k].quantidade <= 0) =>
            req[r].status \in {400, 404}

\* C10 (Spec): no step of any request raises the stock of a product.
C10_EstoqueNaoAumenta ==
    [][\A p \in Produtos : produtos'[p].estoque <= produtos[p].estoque]_vars

\* ------------------------------------------- price changes (for C11)
NumPrecos == 3        \* prices a product may be given: 10, 20, ..., 10 * NumPrecos

Precos == {10 * n : n \in 1..NumPrecos}

\* Variant of the line's unit price that reads the product's present price.
PrecoUnitarioAtual(k) == produtos[k[2]].preco

\* Unit price of the stored line k = <<VendaId, ProdutoId>>: the
\* preco_unitario column of ItemVenda, as the responses return it
\* (through: { attributes: ['quantidade', 'preco_unitario'] }).
PrecoUnitario(k) == itemVenda[k].preco_unitario

\* The price of product p is set to `preco`.  No route of server.js writes
\* Produto.preco of an existing row; the step stands for the price change
\* the specification speaks of (a write to the Produto row of the shared
\* database) and touches that column only.
PrecoAlterado(p, preco) ==
    /\ produtos[p].preco # preco
    /\ produtos' = [produtos EXCEPT ![p].preco = preco]
    /\ UNCHANGED <<vendas, itemVenda, req, clientes, lista>>

\* One request at a time with positive quantities; prices change at any
\* moment.
NextPreco ==
    \/ \E r \in Reqs : NenhumaEmCurso /\ \E body \in Corpos(QuantidadesPos) : Receive(r, body)
    \/ \E r \in Reqs : Step(r)
    \/ \E p \in Produtos : \E preco \in Precos : PrecoAlterado(p, preco)

SpecPreco == Init /\ [][NextPreco]_vars

\* C11 (SpecPreco): once a call has ended in 201, a step that changes a
\* product's price leaves the lines of that sale, the unit price of each of
\* them and the stored total of the sale unchanged.
C11_PrecoInstantaneo ==
    [][\A r \in Reqs :
          (/\ Terminou(r) /\ req[r].status = 201
           /\ \E p \in Produtos : produtos'[p].preco # produtos[p].preco) =>
              /\ LinhasDaVenda(req[r].venda)' = LinhasDaVenda(req[r].venda)
              /\ \A k \in LinhasDaVenda(req[r].venda) :
                    PrecoUnitario(k)' = PrecoUnitario(k)
              /\ vendas'[req[r].venda].total = vendas[req[r].venda].total
      ]_vars

\* A sale has ended in 201, no handler is running, and the price of a
\* product it sold is no longer the unit price stored in its line.
C11_Witness ==
    /\ NenhumaEmCurso
    /\ \E r \in Reqs :
          /\ Terminou(r) /\ req[r].status = 201
          /\ \E k \in LinhasDaVenda(req[r].venda) :
                /\ PrecoUnitario(k) # produtos[k[2]].preco
                /\ vendas[req[r].venda].total = TotalDasLinhas(req[r].venda)

\* ------------------------------- one call as a function (for C12, C17)
\* What lines 113-136 make of `loja` = [estoque, linhas, total, totalVenda,
\* status] from item i on, when no other request runs: the loop of the
\* handler with its two early returns, the line written by addProduto, the
\* stock written by produto.update, and the final venda.update.
RECURSIVE ProcessaItens(_, _, _, _)
ProcessaItens(loja, v, itens, i) ==
    IF i > Len(itens)
    THEN [loja EXCEPT !.total = loja.totalVenda, !.status = 201]
    ELSE LET item == itens[i]
             id == item.ProdutoId
         IN IF id \notin DOMAIN loja.estoque
            THEN [loja EXCEPT !.status = 404]
            ELSE IF EstoqueInsuficiente(loja.estoque[id], item.quantidade)
            THEN [loja EXCEPT !.status = 400]
            ELSE LET lido == [id |-> id, preco |-> produtos[id].preco,
                              estoque |-> loja.estoque[id]]
                 IN ProcessaItens(
                        [loja EXCEPT
                            !.linhas = ThroughAdd(@, v, id,
                                          [quantidade |-> item.quantidade,
                                           preco_unitario |-> lido.preco]),
                            !.estoque[id] = NovoEstoque(lido, item.quantidade),
                            !.totalVenda = @ + lido.preco * item.quantidade],
                        v, itens, i + 1)

\* The call POST /vendas with `itens`, run alone from the stock `estoque`,
\* its Venda row having id v (Venda.create stores total 0).
RegistraVenda(estoque, v, itens) ==
    ProcessaItens([estoque |-> estoque, linhas |-> <<>>, total |-> 0,
                   totalVenda |-> 0, status |-> 0], v, itens, 1)

\* What request r has left in the store: the stock, the lines of its sale,
\* the total of its Venda row, and its answer.
ResultadoDe(r) ==
    [estoque |-> [p \in Produtos |-> produtos[p].estoque],
     linhas |-> [k \in LinhasDaVenda(req[r].venda) |-> itemVenda[k]],
     total |-> vendas[req[r].venda].total,
     status |-> req[r].status]

MesmoEstadoFinal(a, b) ==
    /\ a.estoque = b.estoque
    /\ DOMAIN a.linhas = DOMAIN b.linhas
    /\ \A k \in DOMAIN a.linhas : a.linhas[k] = b.linhas[k]
    /\ a.total = b.total

\* The function agrees with the handler's steps: a request that has just
\* returned (one at a time) has left what RegistraVenda computes from the
\* stock at its start.
RegistraVendaConforme ==
    \A r \in Reqs :
        AcabouDeTerminar(r) =>
            LET f == RegistraVenda(req[r].estoqueAntes, req[r].venda, req[r].body.itens)
            IN MesmoEstadoFinal(f, ResultadoDe(r)) /\ f.status = req[r].status

\* The orderings of the sequence `itens`.
Permutacoes(itens) ==
    LET n == Len(itens)
        bij == {f \in [1..n -> 1..n] : \A a, b \in 1..n : a # b => f[a] # f[b]}
    IN {[j \in 1..n |-> itens[f[j]]] : f \in bij}

\* C12 (SpecSeq): the order of the items does not affect the final state:
\* what a call (with positive quantities, no concurrent call) has left in
\* the store is what the call would have left with its items in any other
\* order, from the same store.
C12_OrdemIndiferente ==
    \A r \in Reqs :
        (AcabouDeTerminar(r) /\ QuantidadesPositivas(r)) =>
            \A outra \in Permutacoes(req[r].body.itens) :
                MesmoEstadoFinal(
                    RegistraVenda(req[r].estoqueAntes, req[r].venda, outra),
                    ResultadoDe(r))

\* The items of request r name pairwise distinct products.
ProdutosDistintos(r) ==
    \A j, k \in DOMAIN req[r].body.itens :
        j # k => req[r].body.itens[j].ProdutoId # req[r].body.itens[k].ProdutoId

\* C13 (SpecSeq): a call with distinct products and no concurrent call
\* that failed at item k has left the Venda row with total 0, one line and
\* one applied stock decrement for each of the items 1..k-1, and neither a
\* line nor a stock change for item k or a later item; item k is an item
\* that names no product (404) or asks for more than the stock (400).
C13_EstadoAposFalha ==
    \A r \in Reqs :
        (AcabouDeTerminar(r) /\ FalhouNoItem(r) /\ ProdutosDistintos(r)) =>
            LET itens == req[r].body.itens
                v == req[r].venda
                k == req[r].i
            IN /\ k \in DOMAIN itens
               /\ v \in DOMAIN vendas
               /\ vendas[v] = [ClienteId |-> req[r].body.ClienteId, total |-> 0]
               /\ LinhasDaVenda(v) = {<<v, itens[j].ProdutoId>> : j \in 1..(k - 1)}
               /\ \A j \in 1..(k - 1) :
                    /\ itemVenda[<<v, itens[j].ProdutoId>>] =
                          [quantidade |-> itens[j].quantidade,
                           preco_unitario |-> produtos[itens[j].ProdutoId].preco]
                    /\ produtos[itens[j].ProdutoId].estoque =
                          req[r].estoqueAntes[itens[j].ProdutoId] - itens[j].quantidade
               /\ \A p \in Produtos :
                    (\A j \in 1..(k - 1) : itens[j].ProdutoId # p) =>
                        produtos[p].estoque = req[r].estoqueAntes[p]
               /\ req[r].status = 404 <=> itens[k].ProdutoId \notin Produtos
               /\ req[r].status = 400 =>
                    req[r].estoqueAntes[itens[k].ProdutoId] < itens[k].quantidade

\* A call of two distinct products has failed at its second item after a
\* first item of quantity 2.
C13_Witness ==
    \E r \in Reqs :
        /\ AcabouDeTerminar(r) /\ FalhouNoItem(r) /\ ProdutosDistintos(r)
        /\ req[r].i = 2
        /\ req[r].body.itens[1].quantidade = 2

\* ------------------------------------------------------- GET /vendas
\* One element of the GET /vendas response: the Venda row with its Cliente
\* and its Produtos, each with the through attributes of the ItemVenda row
\* (include: [Cliente, Produto]).
VendaComItens(v) ==
    [ClienteId |-> vendas[v].ClienteId,
     Cliente |-> clientes[vendas[v].ClienteId],
     total |-> vendas[v].total,
     Produtos |-> {[id |-> k[2],
                    quantidade |-> itemVenda[k].quantidade,
                    preco_unitario |-> PrecoUnitario(k)] : k \in LinhasDaVenda(v)}]

\* app.get('/vendas'): const vendas = await Venda.findAll({ include });
\* res.json(vendas).  One query; it reads the store as it is at that moment.
ListVendas ==
    /\ lista' = [v \in DOMAIN vendas |-> VendaComItens(v)]
    /\ lista' # lista
    /\ UNCHANGED <<produtos, vendas, itemVenda, req, clientes>>

\* One POST /vendas at a time, any quantities of the range; GET /vendas is
\* served at any moment, between the awaits of a running POST included.
NextGet ==
    \/ \E r \in Reqs : NenhumaEmCurso /\ \E body \in Corpos(Quantidades) : Receive(r, body)
    \/ \E r \in Reqs : Step(r)
    \/ ListVendas

SpecGet == Init /\ [][NextGet]_vars

\* Items of request r whose line has been written: the items before item i,
\* and item i as well once addProduto has run for it.
ItensComLinha(r) ==
    1..(IF req[r].pc = "update" THEN req[r].i ELSE req[r].i - 1)

\* C14 (SpecGet): a GET /vendas served while a POST /vendas is between
\* Venda.create and venda.update returns the sale of that request with
\* total 0 and with the products of exactly the items whose line has been
\* written so far.
C14_PlaceholderVisivel ==
    [][\A r \in Reqs :
          (lista' # lista /\ req[r].pc \in {"find", "add", "update", "total"}) =>
              /\ req[r].venda \in DOMAIN lista'
              /\ lista'[req[r].venda].total = 0
              /\ {l.id : l \in lista'[req[r].venda].Produtos} =
                    {req[r].body.itens[j].ProdutoId : j \in ItensComLinha(r)}
      ]_vars

\* The last GET /vendas response shows the sale of a request that is still
\* running with total 0 and with fewer products than the request names.
C14_Witness ==
    \E r \in Reqs :
        /\ req[r].pc \in {"find", "add", "update"}
        /\ req[r].venda \in DOMAIN lista
        /\ lista[req[r].venda].total = 0
        /\ LET pedidos == {req[r].body.itens[j].ProdutoId : j \in DOMAIN req[r].body.itens}
               listados == {l.id : l \in lista[req[r].venda].Produtos}
           IN /\ listados \subseteq pedidos
              /\ listados # pedidos
              /\ listados # {}

\* --------------------------------------------------- progress (for C15)
\* Every store operation a handler awaits completes or rejects, and the
\* event loop then resumes the handler: a request that is waiting at an
\* await takes its next step.
SpecVivo ==
    /\ Init
    /\ [][Next]_vars
    /\ \A r \in Reqs : WF_vars(Step(r) \/ StoreError(r))

\* C15 (SpecVivo): every received request is answered; a request has an
\* answer exactly when its handler has returned; and once it has an
\* answer, an error included, it takes no further step (its answer stays
\* and it starts no other store operation).
C15_RespostaUnica ==
    /\ \A r \in Reqs : (req[r].pc = "create") ~> (req[r].pc = "done")
    /\ [](\A r \in Reqs : req[r].pc = "done" <=> req[r].status # 0)
    /\ [][\A r \in Reqs : req[r].status # 0 => req'[r] = req[r]]_vars

\* One request was answered 400 at its second item, and the other request,
\* received before that answer or after it, has ended in 201.
C15_Witness ==
    \E r, q \in Reqs :
        /\ Terminou(r) /\ req[r].status = 400 /\ req[r].i = 2
        /\ Terminou(q) /\ req[q].status = 201

\* C16 (SpecGet): no step changes a Cliente row or the price of a product;
\* a step that changes the stock of a product is a step of a request whose
\* items name that product; a GET /vendas changes no row of any table.
C16_Moldura ==
    [][/\ clientes' = clientes
       /\ \A p \in Produtos : produtos'[p].preco = produtos[p].preco
       /\ \A p \in Produtos :
            produtos'[p].estoque # produtos[p].estoque =>
                \E r \in Reqs :
                    /\ req'[r] # req[r]
                    /\ \E j \in DOMAIN req[r].body.itens :
                          req[r].body.itens[j].ProdutoId = p
       /\ lista' # lista =>
            UNCHANGED <<produtos, vendas, itemVenda, clientes>>
      ]_vars

\* A sale that names product 1 only has ended in 201 and has taken from
\* its stock, the stock of the other products is the initial one, and a
\* GET /vendas has returned that sale.
C16_Witness ==
    \E r \in Reqs :
        /\ Terminou(r) /\ req[r].status = 201
        /\ Len(req[r].body.itens) >= 1
        /\ \A j \in DOMAIN req[r].body.itens : req[r].body.itens[j].ProdutoId = 1
        /\ produtos[1].estoque # EstoqueInicial(1)
        /\ \A p \in Produtos \ {1} : produtos[p].estoque = EstoqueInicial(p)
        /\ req[r].venda \in DOMAIN lista
        /\ lista[req[r].venda].Produtos # {}

\* C17 (SpecSeq): with no concurrent call, the row an item's check has read
\* carries the stock already reduced by the earlier items of the same call;
\* so a call with positive quantities ends in 201 only if, for each
\* product, the sum of the quantities asked of it is within the stock at
\* the start of the call.
C17_EstoqueCorrente ==
    \A r \in Reqs :
        /\ req[r].pc \in {"add", "update"} =>
              req[r].produto.estoque =
                  req[r].estoqueAntes[req[r].produto.id] - Aplicado(r, req[r].produto.id)
        /\ (Terminou(r) /\ req[r].status = 201 /\ QuantidadesPositivas(r)) =>
              \A p \in Produtos :
                  SomaQuantidade(req[r].body.itens, Len(req[r].body.itens), p)
                      <= req[r].estoqueAntes[p]

\* A call that names the same product in two items, with positive
\* quantities, has ended in 201.
C17_Witness ==
    \E r \in Reqs :
        /\ Terminou(r) /\ req[r].status = 201 /\ QuantidadesPositivas(r)
        /\ Len(req[r].body.itens) = 2
        /\ req[r].body.itens[1].ProdutoId = req[r].body.itens[2].ProdutoId
====
